---- MODULE Spec2Model ----
(***************************************************************************)
(* A model of the OCR API of image-text-ocr (src/api/main.py): the three   *)
(* PDF endpoints /ocr/pdf, /ocr/scanned_pdf and /ocr/offer_letter, the     *)
(* response parser extract_json_from_response, and the offer-letter        *)
(* map / merge / defaulting / validation pipeline.                         *)
(*                                                                         *)
(* Python values are written as tagged strings: "None" is Python's None,   *)
(* "s:..." is a str ("s:null" is the literal string "null", "s:" the empty *)
(* string) and "n:..." is a float.  A dict is a function from a finite set *)
(* of keys to such values.                                                 *)
(***************************************************************************)
EXTENDS Integers, Sequences, FiniteSets, TLC

\* ------------------------------------------------------------------ bounds

\* Largest number of pages a document renders to.
MaxPages == 3

\* Largest number of keys of a mapping in the pure-function specification.
MaxKeys == 2

\* Largest number of tokens of a text in the parser specification.
MaxTokens == 4

\* ------------------------------------------------------- values and dicts

None == "None"

NullStr == "s:null"

EmptyDict == [k \in {} |-> None]

\* The keys of default_values, in two groups: those with a non-None default
\* (required fields) and those whose default is None (optional fields).
RequiredStr ==
  {"course_name", "remit_currency", "student_name", "beneficiary_name",
   "university_address"}

RequiredNum == {"total_tuition_amount", "remit_amount"}

OptionalFields == {"iban", "swift", "bsb", "payment_purpose", "account_number"}

SchemaFields == RequiredStr \cup RequiredNum \cup OptionalFields

default_values ==
  [k \in SchemaFields |->
     IF k \in RequiredStr THEN "s:"
     ELSE IF k \in RequiredNum THEN "n:0.0"
     ELSE None]

\* A JSON value as json.loads returns it: a dict, a list (here: a list
\* holding the one dict d) or a scalar (number, string, true, false, null).
JDict(d) == [kind |-> "dict", d |-> d]

JList(d) == [kind |-> "list", d |-> d]

JScalar == [kind |-> "scalar", d |-> EmptyDict]

\* ------------------------------------------------------------------ texts
\* A response text is a sequence of tokens: a run of prose that holds no
\* JSON and no brace, a code fence ``` (with or without the json tag), or
\* the serialisation of one JSON value.
Prose == [t |-> "prose", v |-> JScalar]

Fence == [t |-> "fence", v |-> JScalar]

Json(v) == [t |-> "json", v |-> v]

ParseOk(v) == [ok |-> TRUE, val |-> v]

ParseFail == [ok |-> FALSE, val |-> JScalar]

\* json.loads on a token sequence: it succeeds exactly when the text is the
\* serialisation of one JSON value (surrounding whitespace aside).
json_loads(text) ==
  IF Len(text) = 1 /\ text[1].t = "json" THEN ParseOk(text[1].v) ELSE ParseFail

\* json.dumps of a value: the text that is its serialisation.
json_dumps(v) == << Json(v) >>

FenceAt(text, from) == {j \in from..Len(text) : text[j].t = "fence"}

Least(S) == CHOOSE x \in S : \A y \in S : x <= y

Greatest(S) == CHOOSE x \in S : \A y \in S : y <= x

\* re.findall of the code-block pattern: the contents of the fenced blocks,
\* left to right, non-overlapping, each block closed by the next fence.
RECURSIVE code_blocks(_, _)
code_blocks(text, from) ==
  IF FenceAt(text, from) = {} THEN << >>
  ELSE LET a == Least(FenceAt(text, from))
       IN  IF FenceAt(text, a + 1) = {} THEN << >>
           ELSE LET b == Least(FenceAt(text, a + 1))
                IN  << SubSeq(text, a + 1, b - 1) >> \o code_blocks(text, b + 1)

\* The tokens whose serialisation holds a brace.
BraceAt(text) ==
  {j \in 1..Len(text) : text[j].t = "json" /\ text[j].v.kind \in {"dict", "list"}}

\* re.findall of the greedy pattern \{[\s\S]*\}: the one stretch from the
\* first "{" of the text to its last "}" (none when the text has no brace).
\* Inside a single token that stretch is the dict the token holds.
brace_matches(text) ==
  IF BraceAt(text) = {} THEN << >>
  ELSE LET a == Least(BraceAt(text))
           b == Greatest(BraceAt(text))
       IN  IF a = b THEN << json_dumps(JDict(text[a].v.d)) >>
           ELSE << SubSeq(text, a, b) >>

\* The first candidate json.loads accepts, in the order given.
RECURSIVE first_loads(_)
first_loads(cands) ==
  IF cands = << >> THEN ParseFail
  ELSE IF json_loads(Head(cands)).ok THEN json_loads(Head(cands))
  ELSE first_loads(Tail(cands))

\* sorted(matches, key=len, reverse=True): a stable sort, longest first.
RECURSIVE sorted_longest_first(_)
sorted_longest_first(cands) ==
  IF cands = << >> THEN << >>
  ELSE LET m == Least({j \in 1..Len(cands) :
                         \A k \in 1..Len(cands) : Len(cands[k]) <= Len(cands[j])})
       IN  << cands[m] >> \o
           sorted_longest_first(SubSeq(cands, 1, m - 1) \o
                                SubSeq(cands, m + 1, Len(cands)))

\* A mutation of extract_json_from_response: the brace-delimited stretches
\* are tried before the fenced blocks.
extract_json_from_response_BraceFirst(response_text) ==
  IF json_loads(response_text).ok THEN json_loads(response_text)
  ELSE IF first_loads(sorted_longest_first(brace_matches(response_text))).ok
       THEN first_loads(sorted_longest_first(brace_matches(response_text)))
  ELSE first_loads(code_blocks(response_text, 1))

\* extract_json_from_response: the whole text, then the fenced blocks, then
\* the brace-delimited stretches; ParseFail stands for JSONDecodeError.
extract_json_from_response(response_text) ==
  IF json_loads(response_text).ok THEN json_loads(response_text)
  ELSE IF first_loads(code_blocks(response_text, 1)).ok
       THEN first_loads(code_blocks(response_text, 1))
  ELSE first_loads(sorted_longest_first(brace_matches(response_text)))

\* ------------------------------------------------- cleaning and defaults

\* A mutation of Clean: only None is dropped, the string "null" is kept.
Clean_KeepsNullString(parsed) ==
  [k \in {x \in DOMAIN parsed : parsed[x] # None} |-> parsed[k]]

\* {k: v for k, v in parsed.items() if v is not None and v != "null"}
Clean(parsed) ==
  [k \in {x \in DOMAIN parsed : parsed[x] # None /\ parsed[x] # NullStr}
     |-> parsed[k]]

\* A mutation of ApplyDefaults: a default is set only for a missing key, a
\* key present with None is left alone.
ApplyDefaults_MissingOnly(m) ==
  [k \in DOMAIN m \cup {x \in SchemaFields : default_values[x] # None}
     |-> IF k \in DOMAIN m THEN m[k] ELSE default_values[k]]

\* for key, default in default_values.items():
\*     if key not in merged_result or merged_result[key] is None:
\*         if default is not None: merged_result[key] = default
ApplyDefaults(m) ==
  LET set == {x \in SchemaFields :
                /\ x \notin DOMAIN m \/ m[x] = None
                /\ default_values[x] # None}
  IN  [k \in DOMAIN m \cup set |-> IF k \in set THEN default_values[k] ELSE m[k]]

\* --------------------------------------------------------- OfferLetterData
IsStr(v) == v \in {"s:null", "s:", "s:A", "s:B"}

IsNum(v) == v \in {"n:0.0", "n:1.0"}

Field(d, k) == IF k \in DOMAIN d THEN d[k] ELSE None

\* OfferLetterData(**data) accepts the mapping: the required fields are
\* present with their types, the optional ones are strings or None, and
\* iban and bsb are not both populated (the jurisdiction rule).
OfferLetterData_accepts(d) ==
  /\ \A k \in RequiredStr : IsStr(Field(d, k))
  /\ \A k \in RequiredNum : IsNum(Field(d, k))
  /\ \A k \in OptionalFields : Field(d, k) = None \/ IsStr(Field(d, k))
  /\ ~(Field(d, "iban") # None /\ Field(d, "bsb") # None)

\* The record OfferLetterData(**data) holds: the schema's fields, the ones
\* not given being None; keys outside the schema are ignored.
OfferLetterData(d) == [k \in SchemaFields |-> Field(d, k)]

\* ------------------------------------------------- the model's responses
\* What the model endpoint answers to a page call and to a merge call is
\* free text; these are the texts the model draws from.
\* A page answer with both bank identifiers and a key outside the schema.
D_bank ==
  ("iban" :> "s:A") @@ ("bsb" :> "s:B") @@ ("swift" :> None) @@
  ("note" :> "s:A")

D_name ==
  ("student_name" :> "s:A") @@ ("course_name" :> NullStr) @@
  ("remit_amount" :> "n:1.0") @@ ("note" :> None)

D_null == ("iban" :> None) @@ ("bsb" :> NullStr)

M_part ==
  ("student_name" :> "s:B") @@ ("bsb" :> "s:B") @@ ("iban" :> None) @@
  ("remit_amount" :> None) @@ ("remit_currency" :> NullStr)

PageTexts ==
  { << Prose, Json(JDict(D_bank)) >>,
    << Prose, Fence, Json(JDict(D_name)), Fence >>,
    << Json(JDict(D_null)) >>,
    << Json(JList(D_name)) >>,
    << Prose >> }

MergeTexts ==
  { << Json(JDict(M_part)) >>,
    << Fence, Json(JDict(D_bank)), Fence >>,
    << Json(JList(M_part)) >>,
    << Prose >> }

\* The mappings of the pure-function specification: at most MaxKeys keys.
Keys == SchemaFields \cup {"note"}

Values == {None, NullStr, "s:", "s:A", "n:1.0"}

Dicts ==
  UNION {[S -> Values] : S \in {T \in SUBSET Keys : Cardinality(T) <= MaxKeys}}

\* ------------------------------------------------------------------ state
VARIABLES
  endpoint,        \* the route of the request: "pdf", "scanned_pdf", "offer_letter"
  content_type,    \* file.content_type
  BEARER_TOKEN,    \* the module-level credential ("" when not configured)
  doc_pages,       \* the number of pages the uploaded document renders to
  pc,              \* where the handler is
  page_images,     \* len(page_images) / len(pages) once rendered
  call,            \* per page: the state of its process_page task
  task_result,     \* per page: the text its task returned
  done_order,      \* the pages in the order their tasks ended
  map_results_raw, \* what asyncio.gather returned
  parsed_pages,    \* the collected cleaned page mappings
  page_of,         \* for each entry of parsed_pages, the page it came from
  merged_result,   \* the running merge result (a JSON value)
  i,               \* the loop index (1-based)
  merge_calls,     \* the (extraction1, extraction2) of each merge call issued
  merge_returns,   \* the texts the merge calls returned
  merge_inflight,  \* the number of merge calls awaiting their answer
  response_texts,  \* /ocr/pdf, /ocr/scanned_pdf: the pages transcribed so far
  model_calls,     \* the number of requests sent to the model endpoint
  response,        \* the HTTP outcome of the request
  data,            \* the validated record returned by /ocr/offer_letter
  fn_in,           \* pure-function specification: the input mapping
  fn_out,          \* pure-function specification: the output mapping
  fn_op,           \* pure-function specification: the function applied
  parse_in,        \* parser specification: the response text
  parse_out        \* parser specification: what the parser returned

vars ==
  << endpoint, content_type, BEARER_TOKEN, doc_pages, pc, page_images, call,
     task_result, done_order, map_results_raw, parsed_pages, page_of,
     merged_result, i, merge_calls, merge_returns, merge_inflight,
     response_texts, model_calls, response, data, fn_in, fn_out, fn_op,
     parse_in, parse_out >>

request == << endpoint, content_type, BEARER_TOKEN, doc_pages >>

map_vars == << call, task_result, done_order, map_results_raw >>

reduce_vars ==
  << parsed_pages, page_of, merged_result, merge_calls, merge_returns,
     merge_inflight >>

fn_vars == << fn_in, fn_out, fn_op, parse_in, parse_out >>

Pages == 1..MaxPages

NoResponse == [status |-> 0, detail |-> "", raised |-> 0]

MsgNotPdf == "This endpoint only accepts PDF files"

MsgNoToken == "BEARER_TOKEN environment variable is not configured"

MsgNoImages == "Could not extract images from PDF"

MsgNoData == "Could not extract any data from the PDF pages"

MsgParse == "Failed to parse structured output"

MsgUpstream == "upstream error"

MsgType == "TypeError"

MsgValidation == "ValidationError"

\* raise HTTPException(status_code=s, detail=msg), reaching the client as is.
HTTPException(s, msg) == [status |-> s, detail |-> msg, raised |-> s]

\* except Exception as e: raise HTTPException(status_code=500, detail=str(e))
\* for an exception whose own status was s (0: not an HTTPException).
Caught(s, msg) == [status |-> 500, detail |-> msg, raised |-> s]

Ok200 == [status |-> 200, detail |-> "", raised |-> 0]

Idle ==
  /\ page_images = 0
  /\ call = [p \in Pages |-> "none"]
  /\ task_result = [p \in Pages |-> << >>]
  /\ done_order = << >>
  /\ map_results_raw = << >>
  /\ parsed_pages = << >>
  /\ page_of = << >>
  /\ merged_result = JScalar
  /\ i = 0
  /\ merge_calls = << >>
  /\ merge_returns = << >>
  /\ merge_inflight = 0
  /\ response_texts = << >>
  /\ model_calls = 0
  /\ response = NoResponse
  /\ data = EmptyDict

Init ==
  /\ endpoint \in {"pdf", "scanned_pdf", "offer_letter"}
  /\ content_type \in {"application/pdf", "image/png"}
  /\ BEARER_TOKEN \in {"", "token"}
  /\ doc_pages \in 0..MaxPages
  /\ pc = "start"
  /\ Idle
  /\ fn_in = EmptyDict /\ fn_out = EmptyDict /\ fn_op = "none"
  /\ parse_in = << >> /\ parse_out = ParseFail

\* The request ends with the error e.
Fail(e) == pc' = "failed" /\ response' = e

\* render_pdf_to_images / extract_text_and_images_from_pdf: one entry per
\* page of the document, none for a document that does not rasterize.
render_pdf_to_images(n) == n

\* ------------------------------------------------------- /ocr/offer_letter

\* A mutation of OL_Begin: BEARER_TOKEN is not checked.
OL_Begin_NoTokenCheck ==
  /\ pc = "start" /\ endpoint = "offer_letter"
  /\ IF content_type # "application/pdf"
       THEN Fail(Caught(400, MsgNotPdf)) /\ UNCHANGED page_images
     ELSE IF render_pdf_to_images(doc_pages) = 0
       THEN Fail(Caught(400, MsgNoImages)) /\ UNCHANGED page_images
     ELSE /\ page_images' = render_pdf_to_images(doc_pages)
          /\ pc' = "map"
          /\ UNCHANGED response
  /\ UNCHANGED << request, map_vars, reduce_vars, i, response_texts,
                  model_calls, data, fn_vars >>

\* Lines 321-341: the media type, the credential, the rendering.
OL_Begin ==
  /\ pc = "start" /\ endpoint = "offer_letter"
  /\ IF content_type # "application/pdf"
       THEN Fail(Caught(400, MsgNotPdf)) /\ UNCHANGED page_images
     ELSE IF BEARER_TOKEN = ""
       THEN Fail(Caught(500, MsgNoToken)) /\ UNCHANGED page_images
     ELSE IF render_pdf_to_images(doc_pages) = 0
       THEN Fail(Caught(400, MsgNoImages)) /\ UNCHANGED page_images
     ELSE /\ page_images' = render_pdf_to_images(doc_pages)
          /\ pc' = "map"
          /\ UNCHANGED response
  /\ UNCHANGED << request, map_vars, reduce_vars, i, response_texts,
                  model_calls, data, fn_vars >>

\* asyncio.gather(*[process_page(img, i) ...]): every task is started, each
\* sends its request, and the handler waits.
OL_Gather ==
  /\ pc = "map"
  /\ call' = [p \in Pages |-> IF p <= page_images THEN "inflight" ELSE "none"]
  /\ model_calls' = model_calls + page_images
  /\ pc' = "gather"
  /\ UNCHANGED << request, page_images, task_result, done_order,
                  map_results_raw, reduce_vars, i, response_texts, response,
                  data, fn_vars >>

\* Page p's request is answered with text: its task ends with that result.
\* The tasks run on whether or not the handler still waits for them.
OL_PageReturns(p, text) ==
  /\ call[p] = "inflight"
  /\ call' = [call EXCEPT ![p] = "done"]
  /\ task_result' = [task_result EXCEPT ![p] = text]
  /\ done_order' = Append(done_order, p)
  /\ UNCHANGED << request, pc, page_images, map_results_raw, reduce_vars, i,
                  response_texts, model_calls, response, data, fn_vars >>

\* Page p's request fails (a non-success status, a timeout): the task
\* raises.  gather, called without return_exceptions, hands the first
\* exception to the waiting handler at once; the other tasks keep running.
OL_PageRaises(p) ==
  /\ call[p] = "inflight"
  /\ call' = [call EXCEPT ![p] = "raised"]
  /\ done_order' = Append(done_order, p)
  /\ IF pc = "gather"
       THEN Fail(Caught(0, MsgUpstream))
       ELSE UNCHANGED << pc, response >>
  /\ UNCHANGED << request, page_images, task_result, map_results_raw,
                  reduce_vars, i, response_texts, model_calls, data, fn_vars >>

\* A mutation of gather_results: the results in the order the tasks ended.
gather_results_AsCompleted(results, order, n) ==
  [k \in 1..n |-> results[order[k]]]

\* The list gather returns: the results in the order of the awaitables.
gather_results(results, order, n) == [k \in 1..n |-> results[k]]

\* Every task has returned: gather returns and the handler resumes.
OL_GatherDone ==
  /\ pc = "gather"
  /\ \A p \in 1..page_images : call[p] = "done"
  /\ map_results_raw' = gather_results(task_result, done_order, page_images)
  /\ pc' = "parse"
  /\ UNCHANGED << request, page_images, call, task_result, done_order,
                  reduce_vars, i, response_texts, model_calls, response, data,
                  fn_vars >>

\* One round of the parse loop: the entry page k adds to parsed_pages (none
\* when its text does not parse, when the parsed value has no .items(), or
\* when nothing is left after cleaning).
page_entry(raw_result, k) ==
  LET parsed == extract_json_from_response(raw_result)
  IN  IF parsed.ok /\ parsed.val.kind = "dict" /\ DOMAIN Clean(parsed.val.d) # {}
        THEN << [page |-> k, cleaned |-> Clean(parsed.val.d)] >>
        ELSE << >>

\* A mutation of parse_loop: the loop ends at the first page it cannot use
\* (break in place of continue).
RECURSIVE parse_loop_Break(_, _)
parse_loop_Break(raw, k) ==
  IF k > Len(raw) \/ page_entry(raw[k], k) = << >> THEN << >>
  ELSE page_entry(raw[k], k) \o parse_loop_Break(raw, k + 1)

\* for i, raw_result in enumerate(map_results_raw): ... from round k on.
RECURSIVE parse_loop(_, _)
parse_loop(raw, k) ==
  IF k > Len(raw) THEN << >>
  ELSE page_entry(raw[k], k) \o parse_loop(raw, k + 1)

\* Lines 398-415: the pages are parsed and cleaned; no usable page is an error.
OL_Parse ==
  /\ pc = "parse"
  /\ LET got == parse_loop(map_results_raw, 1)
     IN  /\ parsed_pages' = [k \in 1..Len(got) |-> got[k].cleaned]
         /\ page_of' = [k \in 1..Len(got) |-> got[k].page]
         /\ IF got = << >>
              THEN Fail(Caught(500, MsgNoData))
              ELSE pc' = "reduce" /\ UNCHANGED response
  /\ UNCHANGED << request, page_images, map_vars, merged_result, merge_calls,
                  merge_returns, merge_inflight, i, response_texts,
                  model_calls, data, fn_vars >>

\* A mutation of OL_Reduce: the merge loop starts at the first page
\* (range(0, len)) and runs for a single page too.
OL_Reduce_FromFirst ==
  /\ pc = "reduce"
  /\ merged_result' = JDict(parsed_pages[1])
  /\ i' = 1
  /\ pc' = "merge"
  /\ UNCHANGED << request, page_images, map_vars, parsed_pages, page_of,
                  merge_calls, merge_returns, merge_inflight, response_texts,
                  model_calls, response, data, fn_vars >>

\* Lines 453-458: the running result starts as the first page; a single
\* page skips the merge loop.
OL_Reduce ==
  /\ pc = "reduce"
  /\ merged_result' = JDict(parsed_pages[1])
  /\ i' = 2
  /\ pc' = IF Len(parsed_pages) = 1 THEN "defaults" ELSE "merge"
  /\ UNCHANGED << request, page_images, map_vars, parsed_pages, page_of,
                  merge_calls, merge_returns, merge_inflight, response_texts,
                  model_calls, response, data, fn_vars >>

\* A mutation of OL_MergeIssue: the call does not wait for the one before.
OL_MergeIssue_NoWait ==
  /\ pc = "merge" /\ i <= Len(parsed_pages)
  /\ merge_inflight <= 1
  /\ merge_calls' =
       Append(merge_calls, [extraction1 |-> merged_result,
                            extraction2 |-> parsed_pages[i]])
  /\ merge_inflight' = merge_inflight + 1
  /\ model_calls' = model_calls + 1
  /\ UNCHANGED << request, pc, page_images, map_vars, parsed_pages, page_of,
                  merged_result, merge_returns, i, response_texts, response,
                  data, fn_vars >>

\* merge_two_extractions(merged_result, parsed_pages[i]) sends its request.
OL_MergeIssue ==
  /\ pc = "merge" /\ i <= Len(parsed_pages)
  /\ merge_inflight = 0
  /\ merge_calls' =
       Append(merge_calls, [extraction1 |-> merged_result,
                            extraction2 |-> parsed_pages[i]])
  /\ merge_inflight' = 1
  /\ model_calls' = model_calls + 1
  /\ UNCHANGED << request, pc, page_images, map_vars, parsed_pages, page_of,
                  merged_result, merge_returns, i, response_texts, response,
                  data, fn_vars >>

\* The merge call is answered with text: parsed, it becomes the running
\* result; a text that does not parse raises JSONDecodeError (line 498).
OL_MergeReturns(text) ==
  /\ pc = "merge" /\ merge_inflight > 0
  /\ merge_inflight' = merge_inflight - 1
  /\ merge_returns' = Append(merge_returns, text)
  /\ LET parsed == extract_json_from_response(text)
     IN  IF parsed.ok
           THEN /\ merged_result' = parsed.val
                /\ i' = i + 1
                /\ pc' = IF i + 1 > Len(parsed_pages) THEN "defaults" ELSE "merge"
                /\ UNCHANGED response
           ELSE /\ Fail(Caught(0, MsgParse))
                /\ UNCHANGED << merged_result, i >>
  /\ UNCHANGED << request, page_images, map_vars, parsed_pages, page_of,
                  merge_calls, response_texts, model_calls, data, fn_vars >>

\* The merge call fails upstream: the exception ends the request (line 502).
OL_MergeRaises ==
  /\ pc = "merge" /\ merge_inflight > 0
  /\ merge_inflight' = merge_inflight - 1
  /\ Fail(Caught(0, MsgUpstream))
  /\ UNCHANGED << request, page_images, map_vars, parsed_pages, page_of,
                  merged_result, merge_calls, merge_returns, i,
                  response_texts, model_calls, data, fn_vars >>

\* Lines 464-482: the defaults of the required fields.  A merged result
\* that is no dict raises TypeError.  With a single page merged_result is
\* the very dict parsed_pages[0] holds, so that entry changes with it.
OL_Defaults ==
  /\ pc = "defaults"
  /\ IF merged_result.kind = "dict"
       THEN /\ merged_result' = JDict(ApplyDefaults(merged_result.d))
            /\ parsed_pages' =
                 IF Len(parsed_pages) = 1
                   THEN << ApplyDefaults(merged_result.d) >>
                   ELSE parsed_pages
            /\ pc' = "validate"
            /\ UNCHANGED response
       ELSE /\ Fail(Caught(0, MsgType))
            /\ UNCHANGED << merged_result, parsed_pages >>
  /\ UNCHANGED << request, page_images, map_vars, page_of, merge_calls,
                  merge_returns, merge_inflight, i, response_texts,
                  model_calls, data, fn_vars >>

\* A mutation of OL_Validate: the record is returned as parsed, unvalidated.
OL_Validate_Skipped ==
  /\ pc = "validate"
  /\ LET merge_response == json_dumps(merged_result)
         parsed == extract_json_from_response(merge_response)
     IN  /\ data' = OfferLetterData(parsed.val.d)
         /\ pc' = "done"
         /\ response' = Ok200
  /\ UNCHANGED << request, page_images, map_vars, reduce_vars, i,
                  response_texts, model_calls, fn_vars >>

\* Lines 484-496: the merged result is serialised, parsed back, validated
\* by OfferLetterData and returned.
OL_Validate ==
  /\ pc = "validate"
  /\ LET merge_response == json_dumps(merged_result)
         parsed == extract_json_from_response(merge_response)
     IN  IF ~parsed.ok
           THEN Fail(Caught(0, MsgParse)) /\ UNCHANGED data
         ELSE IF parsed.val.kind # "dict"
           THEN Fail(Caught(0, MsgType)) /\ UNCHANGED data
         ELSE IF ~OfferLetterData_accepts(parsed.val.d)
           THEN Fail(Caught(0, MsgValidation)) /\ UNCHANGED data
         ELSE /\ data' = OfferLetterData(parsed.val.d)
              /\ pc' = "done"
              /\ response' = Ok200
  /\ UNCHANGED << request, page_images, map_vars, reduce_vars, i,
                  response_texts, model_calls, fn_vars >>

\* ---------------------------------------------------------------- /ocr/pdf

\* Lines 149-160: the media type (its HTTPException is re-raised as it is,
\* line 197), then the pages' text and images.
PDF_Begin ==
  /\ pc = "start" /\ endpoint = "pdf"
  /\ IF content_type # "application/pdf"
       THEN Fail(HTTPException(400, MsgNotPdf)) /\ UNCHANGED << page_images, i >>
       ELSE /\ page_images' = render_pdf_to_images(doc_pages)
            /\ i' = 1
            /\ pc' = "page_loop"
            /\ UNCHANGED response
  /\ UNCHANGED << request, map_vars, reduce_vars, response_texts, model_calls,
                  data, fn_vars >>

\* Lines 162-184: the request for page i is sent and awaited.
PDF_PageIssue ==
  /\ pc = "page_loop" /\ endpoint = "pdf" /\ i <= page_images
  /\ model_calls' = model_calls + 1
  /\ pc' = "page_wait"
  /\ UNCHANGED << request, page_images, map_vars, reduce_vars, i,
                  response_texts, response, data, fn_vars >>

\* Line 185: the answer for page i is appended.
PDF_PageReturns ==
  /\ pc = "page_wait" /\ endpoint = "pdf"
  /\ response_texts' = Append(response_texts, i)
  /\ i' = i + 1
  /\ pc' = "page_loop"
  /\ UNCHANGED << request, page_images, map_vars, reduce_vars, model_calls,
                  response, data, fn_vars >>

\* The request for page i fails: line 199 turns the exception into a 500.
PDF_PageRaises ==
  /\ pc = "page_wait" /\ endpoint = "pdf"
  /\ Fail(Caught(0, MsgUpstream))
  /\ UNCHANGED << request, page_images, map_vars, reduce_vars, i,
                  response_texts, model_calls, data, fn_vars >>

\* Lines 187-195: the pages' texts are joined and returned.
PDF_Finish ==
  /\ pc = "page_loop" /\ endpoint = "pdf" /\ i > page_images
  /\ pc' = "done"
  /\ response' = Ok200
  /\ UNCHANGED << request, page_images, map_vars, reduce_vars, i,
                  response_texts, model_calls, data, fn_vars >>

\* -------------------------------------------------------- /ocr/scanned_pdf

\* Lines 264-278: the media type and the rendering; both HTTPExceptions
\* are caught by the handler's own except Exception (line 307).
SC_Begin ==
  /\ pc = "start" /\ endpoint = "scanned_pdf"
  /\ IF content_type # "application/pdf"
       THEN Fail(Caught(400, MsgNotPdf)) /\ UNCHANGED << page_images, i >>
     ELSE IF render_pdf_to_images(doc_pages) = 0
       THEN Fail(Caught(400, MsgNoImages)) /\ UNCHANGED << page_images, i >>
     ELSE /\ page_images' = render_pdf_to_images(doc_pages)
          /\ i' = 1
          /\ pc' = "page_loop"
          /\ UNCHANGED response
  /\ UNCHANGED << request, map_vars, reduce_vars, response_texts, model_calls,
                  data, fn_vars >>

\* Lines 283-294: the request for page i is sent and awaited.
SC_PageIssue ==
  /\ pc = "page_loop" /\ endpoint = "scanned_pdf" /\ i <= page_images
  /\ model_calls' = model_calls + 1
  /\ pc' = "page_wait"
  /\ UNCHANGED << request, page_images, map_vars, reduce_vars, i,
                  response_texts, response, data, fn_vars >>

\* Line 295: the answer for page i is appended.
SC_PageReturns ==
  /\ pc = "page_wait" /\ endpoint = "scanned_pdf"
  /\ response_texts' = Append(response_texts, i)
  /\ i' = i + 1
  /\ pc' = "page_loop"
  /\ UNCHANGED << request, page_images, map_vars, reduce_vars, model_calls,
                  response, data, fn_vars >>

\* The request for page i fails: line 307 turns the exception into a 500.
SC_PageRaises ==
  /\ pc = "page_wait" /\ endpoint = "scanned_pdf"
  /\ Fail(Caught(0, MsgUpstream))
  /\ UNCHANGED << request, page_images, map_vars, reduce_vars, i,
                  response_texts, model_calls, data, fn_vars >>

\* Lines 297-305: the pages' texts are joined and returned.
SC_Finish ==
  /\ pc = "page_loop" /\ endpoint = "scanned_pdf" /\ i > page_images
  /\ pc' = "done"
  /\ response' = Ok200
  /\ UNCHANGED << request, page_images, map_vars, reduce_vars, i,
                  response_texts, model_calls, data, fn_vars >>

\* ---------------------------------------------------------- specification
Next ==
  \/ OL_Begin
  \/ OL_Gather
  \/ \E p \in Pages, text \in PageTexts : OL_PageReturns(p, text)
  \/ \E p \in Pages : OL_PageRaises(p)
  \/ OL_GatherDone
  \/ OL_Parse
  \/ OL_Reduce
  \/ OL_MergeIssue
  \/ \E text \in MergeTexts : OL_MergeReturns(text)
  \/ OL_MergeRaises
  \/ OL_Defaults
  \/ OL_Validate
  \/ PDF_Begin
  \/ PDF_PageIssue
  \/ PDF_PageReturns
  \/ PDF_PageRaises
  \/ PDF_Finish
  \/ SC_Begin
  \/ SC_PageIssue
  \/ SC_PageReturns
  \/ SC_PageRaises
  \/ SC_Finish

Spec == Init /\ [][Next]_vars

\* ------------------------------------------- pure-function specification
\* The cleaning of a parsed page and the defaulting of a merged result,
\* applied to every mapping of at most MaxKeys keys.
FnInit ==
  /\ endpoint = "offer_letter"
  /\ content_type = "application/pdf"
  /\ BEARER_TOKEN = "token"
  /\ doc_pages = 0
  /\ pc = "fn"
  /\ Idle
  /\ fn_in \in Dicts
  /\ fn_out = EmptyDict
  /\ fn_op = "none"
  /\ parse_in = << >> /\ parse_out = ParseFail

FnClean ==
  /\ pc = "fn" /\ fn_op = "none"
  /\ fn_out' = Clean(fn_in)
  /\ fn_op' = "clean"
  /\ UNCHANGED << request, pc, page_images, map_vars, reduce_vars, i,
                  response_texts, model_calls, response, data, fn_in,
                  parse_in, parse_out >>

FnDefaults ==
  /\ pc = "fn" /\ fn_op = "none"
  /\ fn_out' = ApplyDefaults(fn_in)
  /\ fn_op' = "defaults"
  /\ UNCHANGED << request, pc, page_images, map_vars, reduce_vars, i,
                  response_texts, model_calls, response, data, fn_in,
                  parse_in, parse_out >>

FnNext == FnClean \/ FnDefaults

FnSpec == FnInit /\ [][FnNext]_vars

\* ------------------------------------------------- parser specification
\* extract_json_from_response applied to every text of at most MaxTokens
\* tokens, and to the serialisation of every mapping of at most MaxKeys keys.
Tokens ==
  { Prose, Fence, Json(JScalar), Json(JDict(D_null)), Json(JDict(D_bank)),
    Json(JList(D_bank)) }

Texts == UNION {[1..n -> Tokens] : n \in 0..MaxTokens}

ParseInit ==
  /\ endpoint = "offer_letter"
  /\ content_type = "application/pdf"
  /\ BEARER_TOKEN = "token"
  /\ doc_pages = 0
  /\ pc = "fn"
  /\ Idle
  /\ fn_in = EmptyDict /\ fn_out = EmptyDict /\ fn_op = "none"
  /\ parse_in \in Texts \cup {json_dumps(JDict(X)) : X \in Dicts}
  /\ parse_out = ParseFail

ParseApply ==
  /\ pc = "fn" /\ fn_op = "none"
  /\ parse_out' = extract_json_from_response(parse_in)
  /\ fn_op' = "parse"
  /\ UNCHANGED << request, pc, page_images, map_vars, reduce_vars, i,
                  response_texts, model_calls, response, data, fn_in, fn_out,
                  parse_in >>

ParseNext == ParseApply

ParseSpec == ParseInit /\ [][ParseNext]_vars

\* ----------------------------------------------------------------- claims

OfferLetter == endpoint = "offer_letter"

\* The text parses to a JSON object.
ParsesToObject(text) ==
  LET r == extract_json_from_response(text) IN r.ok /\ r.val.kind = "dict"

\* The text parses to a JSON object with a field that is neither null nor "null".
HasData(text) ==
  LET r == extract_json_from_response(text)
  IN  /\ r.ok /\ r.val.kind = "dict"
      /\ \E x \in DOMAIN r.val.d : r.val.d[x] # None /\ r.val.d[x] # NullStr

\* The mapping page p's call returned, as parsed.
PageMapping(p) == extract_json_from_response(task_result[p]).val.d

\* C1: a request of two or more pages is never aborted in the Map Stage
\* because a page's extraction call raised: it does not end failed, before
\* the collected results were ever read, with a raised page call.
C1_PageFailureDoesNotAbort ==
  (OfferLetter /\ page_images >= 2 /\ pc = "failed")
    => ~(map_results_raw = << >> /\ \E p \in 1..page_images : call[p] = "raised")

\* C2 as stated: the no-usable-extraction error is reported only if no
\* page's response parses to a JSON object.
C2_NoDataOnlyIfNothingParses ==
  (OfferLetter /\ response.detail = MsgNoData)
    => \A p \in 1..page_images : ~ParsesToObject(map_results_raw[p])

\* C2 amended: the no-usable-extraction error is reported only if no page's
\* response parses to a JSON object with at least one field that is neither
\* null nor "null"; with one such page the error is not reported.
C2_NoDataOnlyIfNoFields ==
  (OfferLetter /\ response.detail = MsgNoData)
    => \A p \in 1..page_images : ~HasData(map_results_raw[p])

C2_Witness ==
  /\ OfferLetter /\ response.detail = MsgNoData /\ page_images >= 2
  /\ \E p \in 1..page_images : ParsesToObject(map_results_raw[p])
  /\ \E p \in 1..page_images : ~ParsesToObject(map_results_raw[p])

C4_PageOrder ==
  \A j, k \in 1..Len(parsed_pages) :
    j < k =>
      /\ page_of[j] < page_of[k]
      /\ parsed_pages[j] = Clean(PageMapping(page_of[j]))
      /\ parsed_pages[k] = Clean(PageMapping(page_of[k]))

C4_Witness ==
  /\ Len(parsed_pages) >= 2
  /\ done_order[1] > done_order[2]
  /\ parsed_pages[1] # parsed_pages[2]

\* C5: the handler does not move past the gather (to parsing, merging or
\* the end of the request) while a page call is still in flight.
C5_WaitsForAllCalls ==
  (OfferLetter /\ pc \notin {"start", "map", "gather"})
    => \A p \in Pages : call[p] # "inflight"

\* C6: the Reduce Stage is a left fold.  Call 1 gets (P1, P2) and call k
\* gets (the parsed answer of call k-1, P(k+1)); a call is issued only once
\* the one before has returned, so at most one is in flight; there are never
\* more than K-1 calls, and exactly K-1 once the stage has completed, when
\* the running result is the parsed answer of the last call.
C6_LeftFold ==
  LET K == Len(parsed_pages)
      n == Len(merge_calls)
  IN  /\ merge_inflight <= 1
      /\ n - Len(merge_returns) \in {0, 1}
      /\ n > 0 => n <= K - 1
      /\ \A k \in 1..n :
           /\ merge_calls[k].extraction2 = parsed_pages[k + 1]
           /\ merge_calls[k].extraction1 =
                IF k = 1 THEN JDict(parsed_pages[1])
                ELSE extract_json_from_response(merge_returns[k - 1]).val
      /\ (K >= 2 /\ pc \in {"defaults", "validate", "done"}) => n = K - 1
      /\ (K >= 2 /\ pc = "defaults")
           => merged_result = extract_json_from_response(merge_returns[K - 1]).val

C6_Witness ==
  /\ Len(parsed_pages) = 3 /\ pc = "defaults" /\ Len(merge_calls) = 2
  /\ merge_calls[2].extraction1 # merge_calls[1].extraction1

\* C7: with exactly one collected extraction P no merge call is ever
\* issued, and the merged extraction the Reduce Stage hands on is P, the
\* cleaned mapping of its page, unchanged.
C7_SinglePageSkipsMerge ==
  Len(parsed_pages) = 1 =>
    /\ merge_calls = << >>
    /\ merge_inflight = 0
    /\ model_calls = page_images
    /\ pc = "defaults" =>
         /\ merged_result = JDict(parsed_pages[1])
         /\ merged_result.d = Clean(PageMapping(page_of[1]))

C7_Witness ==
  /\ Len(parsed_pages) = 1 /\ pc = "defaults" /\ page_images = 1
  /\ merged_result.kind = "dict" /\ DOMAIN merged_result.d # {}

\* C8: no collected extraction ever holds a null or a "null" value, and as
\* collected (before the defaulting step touches a lone extraction) it has
\* exactly the entries of the parsed page mapping whose value is neither,
\* each with its value unchanged.
C8_FieldCleaning ==
  \A k \in 1..Len(parsed_pages) :
    /\ \A x \in DOMAIN parsed_pages[k] :
         parsed_pages[k][x] # None /\ parsed_pages[k][x] # NullStr
    /\ (Len(parsed_pages) >= 2 \/ pc \in {"reduce", "defaults"}) =>
         LET d == PageMapping(page_of[k])
         IN  /\ DOMAIN parsed_pages[k] =
                  {x \in DOMAIN d : d[x] # None /\ d[x] # NullStr}
             /\ \A x \in DOMAIN parsed_pages[k] : parsed_pages[k][x] = d[x]

C8_Witness ==
  /\ pc = "reduce"
  /\ \E k \in 1..Len(parsed_pages) :
       LET d == PageMapping(page_of[k])
       IN  /\ \E x \in DOMAIN d : d[x] = None
           /\ \E x \in DOMAIN d : d[x] = NullStr
           /\ DOMAIN parsed_pages[k] # {}

\* C9: after the defaulting step a required string field that was missing
\* or null is "", a required numeric field that was missing or null is 0.0,
\* every field that had a non-null value keeps it, and an optional field is
\* given no default: it is present exactly if it was, with the value it had.
C9_SchemaDefaulting ==
  fn_op = "defaults" =>
    /\ DOMAIN fn_out = DOMAIN fn_in \cup RequiredStr \cup RequiredNum
    /\ \A k \in RequiredStr :
         (k \notin DOMAIN fn_in \/ fn_in[k] = None) => fn_out[k] = "s:"
    /\ \A k \in RequiredNum :
         (k \notin DOMAIN fn_in \/ fn_in[k] = None) => fn_out[k] = "n:0.0"
    /\ \A k \in DOMAIN fn_in : fn_in[k] # None => fn_out[k] = fn_in[k]
    /\ \A k \in OptionalFields :
         /\ k \in DOMAIN fn_out <=> k \in DOMAIN fn_in
         /\ k \in DOMAIN fn_in => fn_out[k] = fn_in[k]

C9_Witness ==
  /\ fn_op = "defaults"
  /\ fn_in = ("remit_currency" :> None) @@ ("iban" :> None)
  /\ fn_out["remit_currency"] = "s:"
  /\ fn_out["iban"] = None

\* C10: a request whose document yields zero pages never ends in a
\* successful response, and no model call is issued for it.
C10_ZeroPagesFail ==
  doc_pages = 0 => (response.status # 200 /\ model_calls = 0)

\* C11: a request with a non-PDF media type ends with the unsupported
\* media type error as it was raised (status 400, 'This endpoint only
\* accepts PDF files'), and nothing is rendered and no model call is issued
\* for it.
C11_NonPdfRejectedAs400 ==
  (content_type # "application/pdf" /\ pc \in {"failed", "done"})
    => /\ response = HTTPException(400, MsgNotPdf)
       /\ page_images = 0
       /\ model_calls = 0

\* The fences of a text, and the fences that open a block: the first, the
\* third, ... of them, when a later fence closes it.
Fences(text) == {j \in 1..Len(text) : text[j].t = "fence"}

Opens(text, a) ==
  /\ a \in Fences(text)
  /\ Cardinality({f \in Fences(text) : f <= a}) % 2 = 1
  /\ \E b \in Fences(text) : b > a

\* The block opened at a holds one JSON value and nothing else.
JsonBlock(text, a) ==
  Opens(text, a) /\ a + 2 \in Fences(text) /\ text[a + 1].t = "json"

Braced(text) ==
  {j \in 1..Len(text) : text[j].t = "json" /\ text[j].v.kind # "scalar"}

\* What the three stages, tried in order, are to return for a text.
Expected(text) ==
  IF Len(text) = 1 /\ text[1].t = "json" THEN ParseOk(text[1].v)
  ELSE IF \E a \in 1..Len(text) : JsonBlock(text, a)
    THEN LET a == CHOOSE x \in 1..Len(text) :
                    /\ JsonBlock(text, x)
                    /\ \A y \in 1..Len(text) : JsonBlock(text, y) => x <= y
         IN  ParseOk(text[a + 1].v)
  ELSE IF Cardinality(Braced(text)) = 1
    THEN ParseOk(JDict(text[CHOOSE j \in Braced(text) : TRUE].v.d))
  ELSE ParseFail

\* C12: the parser returns the whole text's JSON value when the text is
\* one; otherwise the value of the first fenced block that is JSON;
\* otherwise the object between the first and the last brace when that is
\* one; otherwise it fails.  So the serialisation of a mapping parses back
\* to the mapping, and a text that holds no JSON fails.
C12_StagesInOrder ==
  fn_op = "parse" =>
    /\ parse_out = Expected(parse_in)
    /\ (Len(parse_in) = 1 /\ parse_in[1].t = "json" /\ parse_in[1].v.kind = "dict")
         => /\ parse_out.ok /\ parse_out.val.kind = "dict"
            /\ parse_out.val.d = parse_in[1].v.d
    /\ (\A j \in 1..Len(parse_in) : parse_in[j].t # "json") => ~parse_out.ok

C12_Witness ==
  /\ fn_op = "parse"
  /\ parse_in = << Prose, Fence, Json(JList(D_bank)), Fence >>
  /\ parse_out = ParseOk(JList(D_bank))

\* C13: whatever the text, the parser returns a mapping or fails.
C13_MappingOrFailure ==
  (fn_op = "parse" /\ parse_out.ok) => parse_out.val.kind = "dict"

\* C14: a collected extraction holds only field names of the offer-letter
\* schema.
C14_OnlySchemaFields ==
  \A k \in 1..Len(parsed_pages) : DOMAIN parsed_pages[k] \subseteq SchemaFields

\* C15: with BEARER_TOKEN empty no page call and no merge call is ever
\* issued, and the request for a PDF ends with the configuration error.
C15_NoCallWithoutToken ==
  (OfferLetter /\ BEARER_TOKEN = "") =>
    /\ model_calls = 0
    /\ \A p \in Pages : call[p] = "none"
    /\ merge_calls = << >> /\ merge_inflight = 0
    /\ pc \in {"start", "failed"}
    /\ (pc = "failed" /\ content_type = "application/pdf")
         => response.status = 500 /\ response.detail = MsgNoToken

C15_Witness ==
  /\ OfferLetter /\ BEARER_TOKEN = "" /\ doc_pages >= 1
  /\ content_type = "application/pdf"
  /\ pc = "failed" /\ response.detail = MsgNoToken /\ model_calls = 0

====
